---- MODULE Spec2Model ----
(***************************************************************************)
(* A model of marketo-template-exporter (src/lib/marketo-client.js and     *)
(* src/cli.js): the token store with its two freshness guards, the paged   *)
(* listing of templates, and the recursive folder path resolver.           *)
(*                                                                         *)
(* Five specifications share the module, one per component:                *)
(*   SpecToken   MarketoClient.authenticate / getAccessToken and the       *)
(*               session based getMarketoAccessToken, with several         *)
(*               callers whose awaits interleave;                          *)
(*   SpecList    MarketoClient.getAllTemplates and the listing loop of     *)
(*               bulkExportTemplates against an upstream collection;       *)
(*   SpecFolder  getFolderDetails / buildFolderPath over a folder map;     *)
(*   SpecExport  the export command of src/cli.js and bulkExportTemplates  *)
(*               from validation to the archive, template by template;     *)
(*   SpecContent the retrieval of one template's HTML through the content  *)
(*               endpoints.                                                *)
(* A specification leaves the variables of the other components at their   *)
(* initial values.                                                         *)
(***************************************************************************)
EXTENDS Integers, Sequences, FiniteSets, TLC

VARIABLES
    \* ---- token store ----
    impl,         \* "client" (MarketoClient) or "session" (getMarketoAccessToken)
    configured,   \* session: MARKETO_CLIENT_ID, _SECRET and _IDENTITY_URL are all set
    now,          \* Date.now(), in milliseconds
    accessToken,  \* this.accessToken / req.session.marketoAccessToken
    tokenExpiry,  \* this.tokenExpiry / req.session.marketoTokenExpiry
    requests,     \* identity requests sent so far
    call,         \* per caller: the call it is in, and what that call did
    \* ---- listing ----
    lister, endless, upstreamSize, lstatus, templates, offset, pageCount,
    pageRequests, tokenCalls, limitWarning,
    pageToken,     \* the last page received carried a continuation token
    tokenOffered,  \* ... and so did the page before the last request sent
    cursorUsed,    \* the cursor of the last request sent: offset | token
    pageFailed,    \* a page request errored or reported a failure
    handed,        \* the list handed to the export loop, if any
    \* ---- folder path ----
    parentOf, startFolder, fstatus, fcur, fstack, fpath, lookups, lookupFailed,
    \* ---- export run ----
    exporter,        \* "cli" (export command) or "bulk" (bulkExportTemplates)
    env,             \* the required environment variables
    zip,             \* options.zip; bulkExportTemplates always archives
    estage,          \* where the run is
    outcome,         \* exit0 | exit1 | returned | raised | unsettled
    abortedAt,       \* the stage whose failure ended the run
    reported,        \* the missing variable names of the error message
    netUsed,         \* a network request was issued
    wrote,           \* a directory or file was written
    total,           \* results.total / allTemplates.length
    cursor,          \* templates iterated / i of the batch loop
    item,            \* per template: pending | started | ok | raised, and why
    successful, failed, processedCount, errors,
    archive,         \* the archive step: what happened underneath, the result
    \* ---- content retrieval ----
    cimpl, cstage, fullAnswer, sectionsAnswer, retryAnswer, cerror, chtml,
    \* ---- content flattening ----
    fimpl,        \* the flattening function
    fsections,    \* the sections it is given
    fstage,       \* input | done
    fout,         \* the string it returns, as a sequence of pieces
    \* ---- template directories ----
    dnames,       \* the template names
    dsize,        \* the size of the collection at the first page request
    dshift,       \* the templates added before the second page request
    dcursor,      \* i of the batch loop
    dflight,      \* the list positions of the templates in flight
    dstage        \* exporting | done

tokVars    == <<impl, configured, now, accessToken, tokenExpiry, requests, call>>
listVars   == <<lister, endless, upstreamSize, lstatus, templates, offset,
                pageCount, pageRequests, tokenCalls, limitWarning, pageToken,
                tokenOffered, cursorUsed, pageFailed, handed>>
folderVars == <<parentOf, startFolder, fstatus, fcur, fstack, fpath, lookups,
                lookupFailed>>
exportVars == <<exporter, env, zip, estage, outcome, abortedAt, reported,
                netUsed, wrote, total, cursor, item, successful, failed,
                processedCount, errors, archive>>
contentVars == <<cimpl, cstage, fullAnswer, sectionsAnswer, retryAnswer,
                 cerror, chtml>>
flattenVars == <<fimpl, fsections, fstage, fout>>
dirVars    == <<dnames, dsize, dshift, dcursor, dflight, dstage>>
vars       == <<tokVars, listVars, folderVars, exportVars, contentVars,
                flattenVars, dirVars>>

(***************************************************************************)
(* Bounds of the model.                                                    *)
(***************************************************************************)
NumCallers   == 2     \* concurrent callers of getToken / authenticate
MaxAuthCalls == 2     \* identity requests sent in one behaviour
MaxTicks     == 2     \* seconds that pass in one behaviour
StartNow     == 7000000  \* Date.now() when the behaviour starts
MaxTtlOver   == 1     \* reported time-to-live values reach the skew plus this

(***************************************************************************)
(* Token store: values.                                                    *)
(***************************************************************************)
Second == 1000                      \* expires_in is in seconds, Date.now() in ms
TOKEN_EXPIRY_BUFFER_MS == 300000    \* 5 * 60 * 1000
ClientSkewMs == 5 * 60 * 1000

NoToken == 0          \* null / undefined: no token stored

Callers == 1 .. NumCallers

\* An expiry is null (never set), NaN (computed from a missing expires_in)
\* or a number of milliseconds.
NullExpiry  == [kind |-> "null", ms |-> 0]
NaNExpiry   == [kind |-> "nan", ms |-> 0]
NumExpiry(t) == [kind |-> "num", ms |-> t]

SkewSeconds == TOKEN_EXPIRY_BUFFER_MS \div Second
\* The time-to-live values the identity endpoint reports, in seconds.
TTLs == {0} \cup {SkewSeconds + d : d \in 0 .. MaxTtlOver}

\* What the identity endpoint answers: a transport error or non-2xx status
\* (axios rejects), or a body with or without access_token and expires_in.
ErrorResponse == [kind |-> "error", hasToken |-> FALSE, hasTtl |-> FALSE, ttl |-> 0]
NoResponse    == [kind |-> "none", hasToken |-> FALSE, hasTtl |-> FALSE, ttl |-> 0]
Body(tok, hasTtl, ttl) ==
    [kind |-> "body", hasToken |-> tok, hasTtl |-> hasTtl, ttl |-> ttl]
Responses ==
    {ErrorResponse, Body(FALSE, FALSE, 0), Body(TRUE, FALSE, 0)}
    \cup {Body(FALSE, TRUE, SkewSeconds + MaxTtlOver)}
    \cup {Body(TRUE, TRUE, t) : t \in TTLs}

\* JavaScript: x - d for a stored expiry x (null converts to 0, NaN stays NaN).
ExpiryMinus(e, d) ==
    IF e.kind = "nan" THEN NaNExpiry
    ELSE NumExpiry((IF e.kind = "null" THEN 0 ELSE e.ms) - d)

\* JavaScript: t >= x, false when x is NaN.
JsGe(t, e) == e.kind = "num" /\ t >= e.ms

\* JavaScript truthiness of a stored expiry: null, NaN and 0 are falsy.
Truthy(e) == e.kind = "num" /\ e.ms # 0

\* Date.now() + expires_in * 1000, NaN when expires_in is undefined.
ExpiryFrom(t, r) ==
    IF r.hasTtl THEN NumExpiry(t + r.ttl * Second) ELSE NaNExpiry

\* The spec's invariant: a token is usable while now < expiresAt - skew.
Usable(tok, e, t) ==
    tok # NoToken /\ e.kind = "num" /\ t < e.ms - TOKEN_EXPIRY_BUFFER_MS

(***************************************************************************)
(* The two freshness guards.                                               *)
(***************************************************************************)
\* Mutants of the client guard: the comparison turned round, and the skew
\* left out.
ClientNeedsRefreshFlipped(tok, e, t) ==
    tok = NoToken \/ ~JsGe(t, ExpiryMinus(e, ClientSkewMs))

ClientNeedsRefreshNoSkew(tok, e, t) ==
    tok = NoToken \/ JsGe(t, ExpiryMinus(e, 0))

\* getAccessToken: !this.accessToken || Date.now() >= this.tokenExpiry - 5*60*1000
ClientNeedsRefresh(tok, e, t) ==
    tok = NoToken \/ JsGe(t, ExpiryMinus(e, ClientSkewMs))

\* Mutant of the session guard: the buffer left out.
SessionCachedNoBuffer(tok, e, t) ==
    tok # NoToken /\ Truthy(e) /\ e.ms > t

\* getMarketoAccessToken: sessionToken && sessionTokenExpiry &&
\*                        sessionTokenExpiry > (Date.now() + TOKEN_EXPIRY_BUFFER_MS)
SessionCached(tok, e, t) ==
    tok # NoToken /\ Truthy(e) /\ e.ms > t + TOKEN_EXPIRY_BUFFER_MS

NeedsRefresh(tok, e, t) ==
    IF impl = "client" THEN ClientNeedsRefresh(tok, e, t)
    ELSE ~SessionCached(tok, e, t)

(***************************************************************************)
(* Whether a response makes authenticate succeed.                          *)
(***************************************************************************)
\* Mutant: any response body accepted.
ClientAcceptsAnyBody(r) == r.kind = "body"

\* authenticate: response.data && response.data.access_token
ClientAccepts(r) == r.kind = "body" /\ r.hasToken

\* getMarketoAccessToken: response.data && response.data.access_token &&
\*                        typeof response.data.expires_in === 'number'
SessionAccepts(r) == r.kind = "body" /\ r.hasToken /\ r.hasTtl

Accepts(r) == IF impl = "client" THEN ClientAccepts(r) ELSE SessionAccepts(r)

(***************************************************************************)
(* Callers.  A call record holds the call a caller is in and what the call *)
(* saw and did:                                                            *)
(*   pc        idle | awaiting (its identity request is in flight) |       *)
(*             returned | raised                                           *)
(*   op        getToken | authenticate                                     *)
(*   usable0, tok0   Usable(...) and the stored token when the call began  *)
(*   edge0     before | after: the call began 1 second before or after     *)
(*             the stored token's expiresAt - 5 minutes                    *)
(*   sent      identity requests this call sent                            *)
(*   reqNo     the number of its request; the endpoint issues token reqNo  *)
(*   resp      the response its request got                                *)
(*   how       cached | refreshed: how a returned token was obtained       *)
(*   ret       the token returned                                          *)
(*   usableRet Usable(...) of the store at the moment of return            *)
(*   numRet    the stored expiry was a number at the moment of return      *)
(***************************************************************************)
\* Where t lies about the boundary expiresAt - 5 minutes of a stored token.
Edge(tok, e, t) ==
    IF tok = NoToken \/ e.kind # "num" THEN "none"
    ELSE IF t = e.ms - TOKEN_EXPIRY_BUFFER_MS - Second THEN "before"
    ELSE IF t = e.ms - TOKEN_EXPIRY_BUFFER_MS + Second THEN "after"
    ELSE "none"

IdleCall ==
    [pc |-> "idle", op |-> "none", usable0 |-> FALSE, tok0 |-> NoToken,
     edge0 |-> "none",
     sent |-> 0, reqNo |-> 0, resp |-> NoResponse, how |-> "none",
     ret |-> NoToken, usableRet |-> FALSE, numRet |-> FALSE]

BeginCall(o) ==
    [IdleCall EXCEPT !.op = o,
                     !.usable0 = Usable(accessToken, tokenExpiry, now),
                     !.edge0 = Edge(accessToken, tokenExpiry, now),
                     !.tok0 = accessToken]

InFlight == {c \in Callers : call[c].pc = "awaiting"}

InitToken ==
    /\ impl \in {"client", "session"}
    /\ configured \in BOOLEAN
    /\ (impl = "client" => configured)
    /\ now = StartNow
    /\ accessToken = NoToken
    /\ tokenExpiry = NullExpiry
    /\ requests = 0
    /\ call = [c \in Callers |-> IdleCall]

\* Time passes.
Tick ==
    /\ now < StartNow + MaxTicks * Second
    /\ now' = now + Second
    /\ UNCHANGED <<impl, configured, accessToken, tokenExpiry, requests, call>>
    /\ UNCHANGED <<listVars, folderVars, exportVars, contentVars, flattenVars,
                   dirVars>>

\* A getToken call that finds the stored token fresh returns it at once.
GetTokenCached(c) ==
    /\ call[c].pc # "awaiting"
    /\ ~NeedsRefresh(accessToken, tokenExpiry, now)
    /\ call' = [call EXCEPT ![c] =
                   [BeginCall("getToken") EXCEPT
                       !.pc = "returned", !.how = "cached", !.ret = accessToken,
                       !.usableRet = Usable(accessToken, tokenExpiry, now),
                       !.numRet = (tokenExpiry.kind = "num")]]
    /\ UNCHANGED <<impl, configured, now, accessToken, tokenExpiry, requests>>
    /\ UNCHANGED <<listVars, folderVars, exportVars, contentVars, flattenVars,
                   dirVars>>

\* getMarketoAccessToken with a credential variable missing throws before
\* any request is made.
GetTokenUnconfigured(c) ==
    /\ call[c].pc # "awaiting"
    /\ impl = "session"
    /\ ~configured
    /\ NeedsRefresh(accessToken, tokenExpiry, now)
    /\ call' = [call EXCEPT ![c] = [BeginCall("getToken") EXCEPT !.pc = "raised"]]
    /\ UNCHANGED <<impl, configured, now, accessToken, tokenExpiry, requests>>
    /\ UNCHANGED <<listVars, folderVars, exportVars, contentVars, flattenVars,
                   dirVars>>

\* A getToken call that finds the token absent or stale sends an identity
\* request and awaits the response.
GetTokenRefresh(c) ==
    /\ call[c].pc # "awaiting"
    /\ configured
    /\ NeedsRefresh(accessToken, tokenExpiry, now)
    /\ requests < MaxAuthCalls
    /\ requests' = requests + 1
    /\ call' = [call EXCEPT ![c] =
                   [BeginCall("getToken") EXCEPT
                       !.pc = "awaiting", !.sent = 1, !.reqNo = requests + 1]]
    /\ UNCHANGED <<impl, configured, now, accessToken, tokenExpiry>>
    /\ UNCHANGED <<listVars, folderVars, exportVars, contentVars, flattenVars,
                   dirVars>>

\* MarketoClient.authenticate called directly (src/cli.js does so at startup):
\* it sends the request whatever the store holds.
AuthenticateCall(c) ==
    /\ call[c].pc # "awaiting"
    /\ impl = "client"
    /\ requests < MaxAuthCalls
    /\ requests' = requests + 1
    /\ call' = [call EXCEPT ![c] =
                   [BeginCall("authenticate") EXCEPT
                       !.pc = "awaiting", !.sent = 1, !.reqNo = requests + 1]]
    /\ UNCHANGED <<impl, configured, now, accessToken, tokenExpiry>>
    /\ UNCHANGED <<listVars, folderVars, exportVars, contentVars, flattenVars,
                   dirVars>>

\* The identity endpoint answers caller c's request with r.  An accepted
\* body stores the token and the expiry computed from now and returns the
\* token; anything else raises and leaves the store alone.
Respond(c, r) ==
    /\ call[c].pc = "awaiting"
    /\ IF Accepts(r)
       THEN /\ accessToken' = call[c].reqNo
            /\ tokenExpiry' = ExpiryFrom(now, r)
            /\ call' = [call EXCEPT ![c] =
                   [@ EXCEPT !.pc = "returned", !.resp = r, !.how = "refreshed",
                             !.ret = call[c].reqNo,
                             !.usableRet =
                                 Usable(call[c].reqNo, ExpiryFrom(now, r), now),
                             !.numRet = (ExpiryFrom(now, r).kind = "num")]]
       ELSE /\ call' = [call EXCEPT ![c] =
                   [@ EXCEPT !.pc = "raised", !.resp = r]]
            /\ UNCHANGED <<accessToken, tokenExpiry>>
    /\ UNCHANGED <<impl, configured, now, requests>>
    /\ UNCHANGED <<listVars, folderVars, exportVars, contentVars, flattenVars,
                   dirVars>>

TokenNext ==
    \/ Tick
    \/ \E c \in Callers : GetTokenCached(c)
    \/ \E c \in Callers : GetTokenUnconfigured(c)
    \/ \E c \in Callers : GetTokenRefresh(c)
    \/ \E c \in Callers : AuthenticateCall(c)
    \/ \E c \in Callers : \E r \in Responses : Respond(c, r)

(***************************************************************************)
(* Listing: MarketoClient.getAllTemplates and the listing loop of          *)
(* bulkExportTemplates.                                                    *)
(***************************************************************************)
maxReturn == 200      \* getAllTemplates
pageSize  == 200      \* bulkExportTemplates
MAX_PAGES == 50       \* bulkExportTemplates

\* Bounds of the model.
MaxOffBy      == 1    \* collection sizes lie this close around the page multiples
ExtraRequests == 3    \* page requests followed past MAX_PAGES where no cap stops them

Min(a, b) == IF a < b THEN a ELSE b

PageLen == IF lister = "getAllTemplates" THEN maxReturn ELSE pageSize

\* The sizes of the upstream collection: around 0, 1, 2, MAX_PAGES - 1,
\* MAX_PAGES and MAX_PAGES + 1 full pages.
Sizes ==
    {k * pageSize + d :
        k \in {0, 1, 2, MAX_PAGES - 1, MAX_PAGES, MAX_PAGES + 1},
        d \in (-MaxOffBy) .. MaxOffBy} \cap Nat

\* The upstream collection: template i is the i-th in upstream order.
Upstream(n) == [i \in 1 .. n |-> i]

\* What the list endpoint serves for {maxReturn: len, offset: off}: the
\* slice of the collection, or, from an upstream that never ends, one more
\* full page.
ServedPage(off, len) ==
    IF endless THEN [i \in 1 .. len |-> off + i]
    ELSE [i \in 1 .. (Min(off + len, upstreamSize) - Min(off, upstreamSize)) |->
              off + i]

\* A page request is answered with "page" (success and a result array),
\* "failure" (success=false, no result array) or "error" (axios rejects).
PageAnswers == {"page", "failure", "error"}

\* Mutant: the page limit hit one page early.
PageLimitHitEarly(count) == count >= MAX_PAGES

\* bulkExportTemplates: if (pageCount > MAX_PAGES)
PageLimitHit(count) == count > MAX_PAGES

\* The cursor of a page request, given whether the last response carried a
\* continuation token: params is { maxReturn, offset } in both loops.
CursorOf(tokenPresent) == "offset"

\* Mutant: a failed page request ending the loop like a short page.
FailedPageStatusBreaks(l, answer) == "format"

\* What a failed page request does to the listing: getAllTemplates throws
\* on success=false and lets a request error propagate; the loop of
\* bulkExportTemplates breaks on an unexpected body and lets a request
\* error propagate.
FailedPageStatus(l, answer) ==
    IF l = "getAllTemplates" \/ answer = "error" THEN "raised" ELSE "format"

NothingHanded == [given |-> FALSE, total |-> 0]

\* result.length < maxReturn / fetchedCount < pageSize: the last page.
IsLastPage(fetched, len) == fetched < len

\* Mutant: the offset advanced by one less than a page.
NextOffsetOverlapping(off, len) == off + len - 1

\* offset += maxReturn / offset += pageSize
NextOffset(off, len) == off + len

InitList ==
    /\ lister \in {"getAllTemplates", "bulkExport"}
    /\ endless \in BOOLEAN
    /\ upstreamSize \in Sizes
    /\ (endless => upstreamSize = 0)
    /\ lstatus = IF lister = "bulkExport" THEN "start" ELSE "running"
    /\ templates = << >>
    /\ offset = 0
    /\ pageCount = 0
    /\ pageRequests = 0
    /\ tokenCalls = 0
    /\ limitWarning = FALSE
    /\ pageToken = FALSE
    /\ tokenOffered = FALSE
    /\ cursorUsed = "none"
    /\ pageFailed = FALSE
    /\ handed = NothingHanded

\* bulkExportTemplates obtains the token once, before the loop.
BulkStart(tokenOk) ==
    /\ lister = "bulkExport"
    /\ lstatus = "start"
    /\ tokenCalls' = tokenCalls + 1
    /\ lstatus' = IF tokenOk THEN "running" ELSE "raised"
    /\ UNCHANGED <<lister, endless, upstreamSize, templates, offset, pageCount,
                   pageRequests, limitWarning, pageToken, tokenOffered,
                   cursorUsed, pageFailed, handed>>
    /\ UNCHANGED <<tokVars, folderVars, exportVars, contentVars, flattenVars,
                   dirVars>>

\* One iteration of the do-while loop of bulkExportTemplates.  hasToken:
\* the page received carries a nextPageToken.
BulkPage(answer, hasToken) ==
    /\ lister = "bulkExport"
    /\ lstatus = "running"
    /\ answer # "page" => ~hasToken
    /\ pageCount' = pageCount + 1
    /\ tokenCalls' = tokenCalls
    /\ IF PageLimitHit(pageCount + 1)
       THEN /\ limitWarning' = TRUE
            /\ lstatus' = "limit"
            /\ UNCHANGED <<templates, offset, pageRequests, pageToken,
                           tokenOffered, cursorUsed, pageFailed>>
       ELSE /\ pageRequests' = pageRequests + 1
            /\ limitWarning' = limitWarning
            /\ tokenOffered' = pageToken
            /\ cursorUsed' = CursorOf(pageToken)
            /\ IF answer # "page"
               THEN /\ lstatus' = FailedPageStatus(lister, answer)
                    /\ pageFailed' = TRUE
                    /\ UNCHANGED <<templates, offset, pageToken>>
               ELSE LET page == ServedPage(offset, pageSize) IN
                    /\ templates' = templates \o page
                    /\ pageToken' = hasToken
                    /\ pageFailed' = pageFailed
                    /\ IF IsLastPage(Len(page), pageSize)
                       THEN lstatus' = "end" /\ offset' = offset
                       ELSE lstatus' = "running"
                            /\ offset' = NextOffset(offset, pageSize)
    /\ UNCHANGED <<lister, endless, upstreamSize, handed>>
    /\ UNCHANGED <<tokVars, folderVars, exportVars, contentVars, flattenVars,
                   dirVars>>

\* One iteration of the while (true) loop of getAllTemplates: getAccessToken,
\* then the page request.
GetAllPage(tokenOk, answer, hasToken) ==
    /\ lister = "getAllTemplates"
    /\ lstatus = "running"
    /\ answer # "page" => ~hasToken
    /\ pageRequests < MAX_PAGES + ExtraRequests
    /\ tokenCalls' = tokenCalls + 1
    /\ IF ~tokenOk
       THEN /\ lstatus' = "raised"
            /\ UNCHANGED <<templates, offset, pageRequests, pageToken,
                           tokenOffered, cursorUsed, pageFailed>>
       ELSE /\ pageRequests' = pageRequests + 1
            /\ tokenOffered' = pageToken
            /\ cursorUsed' = CursorOf(pageToken)
            /\ IF answer # "page"
               THEN /\ lstatus' = FailedPageStatus(lister, answer)
                    /\ pageFailed' = TRUE
                    /\ UNCHANGED <<templates, offset, pageToken>>
               ELSE LET page == ServedPage(offset, maxReturn) IN
                    /\ templates' = templates \o page
                    /\ pageToken' = hasToken
                    /\ pageFailed' = pageFailed
                    /\ IF IsLastPage(Len(page), maxReturn)
                       THEN lstatus' = "end" /\ offset' = offset
                       ELSE lstatus' = "running"
                            /\ offset' = NextOffset(offset, maxReturn)
    /\ UNCHANGED <<lister, endless, upstreamSize, pageCount, limitWarning,
                   handed>>
    /\ UNCHANGED <<tokVars, folderVars, exportVars, contentVars, flattenVars,
                   dirVars>>

\* The listing is over and its list goes to the export loop:
\* exportAllTemplates sets results.total = templates.length and iterates;
\* bulkExportTemplates goes on to its batches after any break of the loop.
\* A listing that raised hands nothing over: the caller raises with it.
HandOver ==
    /\ lstatus \in {"end", "limit", "format"}
    /\ handed' = [given |-> TRUE, total |-> Len(templates)]
    /\ lstatus' = "exporting"
    /\ UNCHANGED <<lister, endless, upstreamSize, templates, offset, pageCount,
                   pageRequests, tokenCalls, limitWarning, pageToken,
                   tokenOffered, cursorUsed, pageFailed>>
    /\ UNCHANGED <<tokVars, folderVars, exportVars, contentVars, flattenVars,
                   dirVars>>

ListNext ==
    \/ \E ok \in BOOLEAN : BulkStart(ok)
    \/ \E a \in PageAnswers : \E k \in BOOLEAN : BulkPage(a, k)
    \/ \E ok \in BOOLEAN : \E a \in PageAnswers : \E k \in BOOLEAN :
           GetAllPage(ok, a, k)
    \/ HandOver

(***************************************************************************)
(* Folder path: getFolderDetails and buildFolderPath.                      *)
(***************************************************************************)
\* Bounds of the model.
NumFolders == 3       \* folders of the instance
MaxLookups == 5       \* folder lookups followed in one resolution

NoFolder == 0         \* an absent folder id, an absent parent

Folders == 1 .. NumFolders

\* result[0] of the folder endpoint for folder f: its id and optional parent.
Details(f) == [id |-> f, parent |-> parentOf[f]]

\* A lookup finds the folder, finds nothing (an empty result, success=false
\* or a caught request error: getFolderDetails returns null), or fails to
\* obtain a token, which getFolderDetails does not catch.
LookupAnswers == {"found", "null", "authfail"}

\* if (!folderDetails.parent || !folderDetails.parent.id)
IsRoot(d) == d.parent = NoFolder

\* Mutant: the folder put before its parent's path.
WithFolderFirst(parentPath, d) == <<d>> \o parentPath

\* return [...parentPath, folderDetails]
WithFolder(parentPath, d) == Append(parentPath, d)

\* The pending calls of buildFolderPath return innermost first: each appends
\* its own folder to the path its recursive call returned.  stack holds the
\* folders of the pending calls, the outermost (the given folder) first.
RECURSIVE Unwind(_, _)
Unwind(parentPath, stack) ==
    IF stack = << >> THEN parentPath
    ELSE Unwind(WithFolder(parentPath, stack[Len(stack)]),
                SubSeq(stack, 1, Len(stack) - 1))

InitFolder ==
    /\ parentOf \in [Folders -> Folders \cup {NoFolder}]
    /\ startFolder \in Folders \cup {NoFolder}
    /\ fstatus = "walking"
    /\ fcur = startFolder
    /\ fstack = << >>
    /\ fpath = << >>
    /\ lookups = 0
    /\ lookupFailed = FALSE

\* buildFolderPath(req, folderId) with an absent folderId returns [] at once.
ResolveAbsent ==
    /\ fstatus = "walking"
    /\ fcur = NoFolder
    /\ fstatus' = "returned"
    /\ fpath' = Unwind(<< >>, fstack)
    /\ UNCHANGED <<parentOf, startFolder, fcur, fstack, lookups, lookupFailed>>
    /\ UNCHANGED <<tokVars, listVars, exportVars, contentVars, flattenVars,
                   dirVars>>

\* One call of buildFolderPath: it looks fcur up and either returns (and
\* with it every pending call) or calls itself for the parent.
Lookup(answer) ==
    /\ fstatus = "walking"
    /\ fcur # NoFolder
    /\ lookups < MaxLookups
    /\ CASE answer = "authfail" ->
              /\ fstatus' = "raised"
              /\ UNCHANGED <<fcur, fstack, fpath, lookups, lookupFailed>>
         [] answer = "null" ->
              /\ lookups' = lookups + 1
              /\ lookupFailed' = TRUE
              /\ fstatus' = "returned"
              /\ fpath' = Unwind(<< >>, fstack)
              /\ UNCHANGED <<fcur, fstack>>
         [] OTHER ->
              /\ lookups' = lookups + 1
              /\ lookupFailed' = lookupFailed
              /\ IF IsRoot(Details(fcur))
                 THEN /\ fstatus' = "returned"
                      /\ fpath' = Unwind(<<Details(fcur)>>, fstack)
                      /\ UNCHANGED <<fcur, fstack>>
                 ELSE /\ fstatus' = "walking"
                      /\ fstack' = Append(fstack, Details(fcur))
                      /\ fcur' = Details(fcur).parent
                      /\ fpath' = fpath
    /\ UNCHANGED <<parentOf, startFolder>>
    /\ UNCHANGED <<tokVars, listVars, exportVars, contentVars, flattenVars,
                   dirVars>>

FolderNext ==
    \/ ResolveAbsent
    \/ \E a \in LookupAnswers : Lookup(a)

(***************************************************************************)
(* Export run: the export command of src/cli.js over                       *)
(* MarketoClient.exportAllTemplates / exportTemplate / createArchive, and  *)
(* bulkExportTemplates over processTemplate / createZipArchive.  The       *)
(* listing is a single step here; SpecList follows it page by page.        *)
(***************************************************************************)
BATCH_SIZE == 5       \* bulkExportTemplates: templates processed at a time

\* Bounds of the model.
MaxTemplates == 6     \* templates a listing returns
MaxFailures  == 2     \* templates of one run whose export meets a failure

requiredEnvVars ==
    <<"MARKETO_CLIENT_ID", "MARKETO_CLIENT_SECRET", "MARKETO_IDENTITY_URL",
      "MARKETO_REST_URL">>

EnvNames == {requiredEnvVars[i] : i \in 1 .. Len(requiredEnvVars)}

\* process.env[varName] is undefined, the empty string, or a value.
EnvValues == {"unset", "empty", "set"}

\* Mutant: MARKETO_REST_URL left out of the validation.
MissingVarsButRestUrl(e) ==
    LET Missing(v) == e[v] # "set" /\ v # "MARKETO_REST_URL"
    IN SelectSeq(requiredEnvVars, Missing)

\* requiredEnvVars.filter(varName => !process.env[varName])
MissingVars(e) ==
    LET Missing(v) == e[v] # "set"
    IN SelectSeq(requiredEnvVars, Missing)

TemplateIds == 1 .. MaxTemplates

\* What happens while one template is exported:
\*   fs          mkdir or the write of the metadata file fails
\*   folderauth  bulk: no token for the folder lookups of buildFolderPath
\*   auth        no token for the content request
\*   content     the content request fails (error, success=false, business
\*               error, no content through any endpoint)
\*   empty       the content holds no HTML
\*   html        the content holds HTML
CliCauses  == {"fs", "auth", "content", "empty", "html"}
BulkCauses == {"fs", "folderauth", "auth", "content", "empty", "html"}
Causes(exp) == IF exp = "cli" THEN CliCauses ELSE BulkCauses

FailureCauses     == {"fs", "folderauth", "auth", "content"}
AuthCauses        == {"folderauth", "auth"}
ContentFailCauses == {"auth", "content"}

\* Whether the export of one template raises to the orchestrator.
\* exportTemplate catches what getTemplateContent throws and returns;
\* processTemplate writes error.txt and throws again, and does not catch
\* what buildFolderPath throws.
Raises(exp, cause) ==
    IF exp = "cli" THEN cause = "fs"
    ELSE cause \in {"fs", "folderauth", "auth", "content"}

\* The files the export of one template leaves in its directory.
FilesOf(exp, cause) ==
    IF exp = "cli"
    THEN CASE cause = "fs"      -> {}
           [] cause = "auth"    -> {"metadata.json", "error.txt"}
           [] cause = "content" -> {"metadata.json", "error.txt"}
           [] cause = "empty"   -> {"metadata.json"}
           [] OTHER             -> {"metadata.json", "html"}
    ELSE CASE cause = "fs"         -> {}
           [] cause = "folderauth" -> {}
           [] cause = "auth"       ->
                  {"metadata.json", "metadata.txt", "error.txt"}
           [] cause = "content"    ->
                  {"metadata.json", "metadata.txt", "error.txt"}
           [] cause = "empty"      ->
                  {"metadata.json", "metadata.txt", "no_content.txt"}
           [] OTHER                ->
                  {"metadata.json", "metadata.txt", "html"}

PendingItem == [st |-> "pending", cause |-> "none", files |-> {}]
StartedItem == [st |-> "started", cause |-> "none", files |-> {}]
SettledItem(exp, cause) ==
    [st |-> IF Raises(exp, cause) THEN "raised" ELSE "ok",
     cause |-> cause, files |-> FilesOf(exp, cause)]

\* results.successful++ / results.failed++, successCount++ / errorCount++
Count(n, hit) == IF hit THEN n + 1 ELSE n

\* Mutant: a failure counted without its error entry.
RecordNothing(errs, t, raised) == errs

\* results.errors.push({templateId, error}) in the catch of the item; in
\* bulkExportTemplates the error line written for the template.
Record(errs, t, raised) == IF raised THEN Append(errs, t) ELSE errs

\* Mutant: a batch that starts one template late.
NextBatchStartSkipping(i) == i + BATCH_SIZE + 1

\* for (let i = 0; i < allTemplates.length; i += BATCH_SIZE)
NextBatchStart(i) == i + BATCH_SIZE

\* Mutant: a batch one template longer.
BatchOverlong(i, n) ==
    {t \in TemplateIds : i < t /\ t <= Min(i + BATCH_SIZE + 1, n)}

\* allTemplates.slice(i, i + BATCH_SIZE), as template numbers
Batch(i, n) == {t \in TemplateIds : i < t /\ t <= Min(i + BATCH_SIZE, n)}

\* MarketoClient.createArchive: fs is require('fs').promises there, which
\* has no createWriteStream; the call throws inside the promise executor
\* and the promise rejects, whatever the filesystem and the compression do.
ClientArchiveResult(fsError, zipError) == "error"

\* createZipArchive: resolves with the path on the output's close, rejects
\* on an archiver error; an error of the output stream has no handler and
\* settles nothing.
ZipArchiveResult(fsError, zipError) ==
    IF fsError THEN "unsettled"
    ELSE IF zipError THEN "error"
    ELSE "path"

NoArchive == [tried |-> FALSE, fsError |-> FALSE, zipError |-> FALSE,
              result |-> "none"]
ArchiveRun(fsError, zipError, result) ==
    [tried |-> TRUE, fsError |-> fsError, zipError |-> zipError,
     result |-> result]

\* The templates of the run that met a failure so far.
Troubled == {t \in TemplateIds : item[t].cause \in FailureCauses}
MayMeet(cause) ==
    cause \in FailureCauses => Cardinality(Troubled) < MaxFailures

InitExport ==
    /\ exporter \in {"cli", "bulk"}
    /\ env \in [EnvNames -> EnvValues]
    /\ zip \in BOOLEAN
    /\ (exporter = "bulk" => zip /\ env = [v \in EnvNames |-> "set"])
    /\ estage = IF exporter = "cli" THEN "validate" ELSE "token"
    /\ outcome = "none"
    /\ abortedAt = "none"
    /\ reported = << >>
    /\ netUsed = FALSE
    /\ wrote = FALSE
    /\ total = 0
    /\ cursor = 0
    /\ item = [t \in TemplateIds |-> PendingItem]
    /\ successful = 0
    /\ failed = 0
    /\ processedCount = 0
    /\ errors = << >>
    /\ archive = NoArchive

\* The catch of the export command: spinner.fail and process.exit(1).
CliFail(stage) ==
    /\ estage' = "done"
    /\ outcome' = "exit1"
    /\ abortedAt' = stage

\* The export command validates the environment first.
CliValidate ==
    /\ exporter = "cli"
    /\ estage = "validate"
    /\ IF MissingVars(env) # << >>
       THEN /\ reported' = MissingVars(env)
            /\ CliFail("validate")
       ELSE /\ estage' = "authenticate"
            /\ UNCHANGED <<outcome, abortedAt, reported>>
    /\ UNCHANGED <<exporter, env, zip, netUsed, wrote, total, cursor, item,
                   successful, failed, processedCount, errors, archive>>
    /\ UNCHANGED <<tokVars, listVars, folderVars, contentVars, flattenVars,
                   dirVars>>

\* await client.authenticate()
CliAuthenticate(ok) ==
    /\ exporter = "cli"
    /\ estage = "authenticate"
    /\ netUsed' = TRUE
    /\ IF ok
       THEN estage' = "listing" /\ UNCHANGED <<outcome, abortedAt>>
       ELSE CliFail("authenticate")
    /\ UNCHANGED <<exporter, env, zip, reported, wrote, total, cursor, item,
                   successful, failed, processedCount, errors, archive>>
    /\ UNCHANGED <<tokVars, listVars, folderVars, contentVars, flattenVars,
                   dirVars>>

\* Where the export command goes once exportAllTemplates has returned.
CliAfterExport ==
    IF zip THEN /\ estage' = "archive"
                /\ UNCHANGED <<outcome, abortedAt>>
    ELSE /\ estage' = "done"
         /\ outcome' = "exit0"
         /\ abortedAt' = abortedAt

\* exportAllTemplates: getAllTemplates raises, or returns n templates.
CliList(raises, n) ==
    /\ exporter = "cli"
    /\ estage = "listing"
    /\ IF raises
       THEN /\ CliFail("listing")
            /\ total' = total
       ELSE /\ total' = n
            /\ IF n = 0 THEN CliAfterExport
               ELSE estage' = "exporting" /\ UNCHANGED <<outcome, abortedAt>>
    /\ UNCHANGED <<exporter, env, zip, reported, netUsed, wrote, cursor, item,
                   successful, failed, processedCount, errors, archive>>
    /\ UNCHANGED <<tokVars, listVars, folderVars, contentVars, flattenVars,
                   dirVars>>

\* One iteration of the for loop of exportAllTemplates.
CliExportTemplate(cause) ==
    /\ exporter = "cli"
    /\ estage = "exporting"
    /\ cursor < total
    /\ MayMeet(cause)
    /\ LET t == cursor + 1
           raised == Raises(exporter, cause)
       IN /\ item' = [item EXCEPT ![t] = SettledItem(exporter, cause)]
          /\ successful' = Count(successful, ~raised)
          /\ failed' = Count(failed, raised)
          /\ errors' = Record(errors, t, raised)
          /\ wrote' = (wrote \/ FilesOf(exporter, cause) # {})
          /\ cursor' = t
          /\ IF t = total THEN CliAfterExport
             ELSE UNCHANGED <<estage, outcome, abortedAt>>
    /\ UNCHANGED <<exporter, env, zip, reported, netUsed, total,
                   processedCount, archive>>
    /\ UNCHANGED <<tokVars, listVars, folderVars, contentVars, flattenVars,
                   dirVars>>

\* await client.createArchive(options.output, zipPath)
CliArchive(fsError, zipError) ==
    /\ exporter = "cli"
    /\ estage = "archive"
    /\ LET result == ClientArchiveResult(fsError, zipError)
       IN /\ archive' = ArchiveRun(fsError, zipError, result)
          /\ IF result = "path"
             THEN /\ estage' = "done"
                  /\ outcome' = "exit0"
                  /\ abortedAt' = abortedAt
                  /\ wrote' = TRUE
             ELSE /\ CliFail("archive")
                  /\ wrote' = wrote
    /\ UNCHANGED <<exporter, env, zip, reported, netUsed, total, cursor, item,
                   successful, failed, processedCount, errors>>
    /\ UNCHANGED <<tokVars, listVars, folderVars, contentVars, flattenVars,
                   dirVars>>

\* bulkExportTemplates raises to its caller.
BulkFail(stage) ==
    /\ estage' = "done"
    /\ outcome' = "raised"
    /\ abortedAt' = stage

\* How getMarketoAccessToken answers at the start of bulkExportTemplates.
TokenAnswers == {"cached", "refreshed", "unconfigured", "rejected"}

\* bulkExportTemplates creates the export directory and obtains the token.
BulkToken(answer) ==
    /\ exporter = "bulk"
    /\ estage = "token"
    /\ wrote' = TRUE
    /\ netUsed' = (answer \in {"refreshed", "rejected"})
    /\ IF answer \in {"cached", "refreshed"}
       THEN estage' = "listing" /\ UNCHANGED <<outcome, abortedAt>>
       ELSE BulkFail("token")
    /\ UNCHANGED <<exporter, env, zip, reported, total, cursor, item,
                   successful, failed, processedCount, errors, archive>>
    /\ UNCHANGED <<tokVars, listVars, folderVars, contentVars, flattenVars,
                   dirVars>>

\* The listing loop raises, or ends with n templates; the first batch
\* starts.
BulkList(raises, n) ==
    /\ exporter = "bulk"
    /\ estage = "listing"
    /\ netUsed' = TRUE
    /\ IF raises
       THEN /\ BulkFail("listing")
            /\ UNCHANGED <<total, item>>
       ELSE /\ total' = n
            /\ item' = [t \in TemplateIds |->
                           IF t \in Batch(0, n) THEN StartedItem ELSE item[t]]
            /\ estage' = IF n = 0 THEN "archive" ELSE "exporting"
            /\ UNCHANGED <<outcome, abortedAt>>
    /\ UNCHANGED <<exporter, env, zip, reported, wrote, cursor,
                   successful, failed, processedCount, errors, archive>>
    /\ UNCHANGED <<tokVars, listVars, folderVars, contentVars, flattenVars,
                   dirVars>>

\* One template of the running batch settles: processTemplate returned or
\* raised, and the counters are updated.
BulkSettle(t, cause) ==
    /\ exporter = "bulk"
    /\ estage = "exporting"
    /\ item[t].st = "started"
    /\ MayMeet(cause)
    /\ LET raised == Raises(exporter, cause)
       IN /\ item' = [item EXCEPT ![t] = SettledItem(exporter, cause)]
          /\ processedCount' = processedCount + 1
          /\ successful' = Count(successful, ~raised)
          /\ failed' = Count(failed, raised)
          /\ errors' = Record(errors, t, raised)
    /\ UNCHANGED <<exporter, env, zip, estage, outcome, abortedAt, reported,
                   netUsed, wrote, total, cursor, archive>>
    /\ UNCHANGED <<tokVars, listVars, folderVars, contentVars, flattenVars,
                   dirVars>>

\* Promise.allSettled of the batch resolves: the next batch starts, or the
\* loop ends.
BulkBatchEnd ==
    /\ exporter = "bulk"
    /\ estage = "exporting"
    /\ \A t \in TemplateIds : item[t].st # "started"
    /\ cursor' = NextBatchStart(cursor)
    /\ IF NextBatchStart(cursor) < total
       THEN /\ item' = [t \in TemplateIds |->
                           IF t \in Batch(NextBatchStart(cursor), total)
                           THEN StartedItem ELSE item[t]]
            /\ estage' = estage
       ELSE /\ item' = item
            /\ estage' = "archive"
    /\ UNCHANGED <<exporter, env, zip, outcome, abortedAt, reported, netUsed,
                   wrote, total, successful, failed, processedCount, errors,
                   archive>>
    /\ UNCHANGED <<tokVars, listVars, folderVars, contentVars, flattenVars,
                   dirVars>>

\* const zipPath = await createZipArchive(exportDir)
BulkArchive(fsError, zipError) ==
    /\ exporter = "bulk"
    /\ estage = "archive"
    /\ LET result == ZipArchiveResult(fsError, zipError)
       IN /\ archive' = ArchiveRun(fsError, zipError, result)
          /\ CASE result = "path" ->
                    /\ estage' = "done"
                    /\ outcome' = "returned"
                    /\ abortedAt' = abortedAt
               [] result = "error" -> BulkFail("archive")
               [] OTHER ->
                    /\ estage' = "hung"
                    /\ outcome' = "unsettled"
                    /\ abortedAt' = "archive"
    /\ UNCHANGED <<exporter, env, zip, reported, netUsed, wrote, total, cursor,
                   item, successful, failed, processedCount, errors>>
    /\ UNCHANGED <<tokVars, listVars, folderVars, contentVars, flattenVars,
                   dirVars>>

ExportNext ==
    \/ CliValidate
    \/ \E ok \in BOOLEAN : CliAuthenticate(ok)
    \/ \E r \in BOOLEAN : \E n \in 0 .. MaxTemplates : CliList(r, n)
    \/ \E cause \in CliCauses : CliExportTemplate(cause)
    \/ \E f, z \in BOOLEAN : CliArchive(f, z)
    \/ \E a \in TokenAnswers : BulkToken(a)
    \/ \E r \in BOOLEAN : \E n \in 0 .. MaxTemplates : BulkList(r, n)
    \/ \E t \in TemplateIds : \E cause \in BulkCauses : BulkSettle(t, cause)
    \/ BulkBatchEnd
    \/ \E f, z \in BOOLEAN : BulkArchive(f, z)

(***************************************************************************)
(* Content retrieval: MarketoClient.getTemplateContent, and                *)
(* getCompleteEmailContent with fetchContentJsonBackup and                 *)
(* fetchEmailHtmlContent.                                                  *)
(***************************************************************************)
\* What a content endpoint answers: a transport error or non-2xx status
\* (axios rejects), or a body with its success flag, with or without a
\* non-empty errors list, and with its result: no array ("none"), an empty
\* array ("empty"), sections without HTML ("nohtml") or with HTML ("html").
ResultKinds == {"none", "empty", "nohtml", "html"}
NoAnswer == [kind |-> "none", success |-> FALSE, errors |-> FALSE,
             result |-> "none"]
ErrorAnswer == [kind |-> "error", success |-> FALSE, errors |-> FALSE,
                result |-> "none"]
BodyAnswer(s, e, r) ==
    [kind |-> "body", success |-> s, errors |-> e, result |-> r]
ContentAnswers ==
    {ErrorAnswer}
    \cup {BodyAnswer(s, e, r) : s \in BOOLEAN, e \in BOOLEAN, r \in ResultKinds}

\* response.data.errors && response.data.errors.length > 0
HasErrors(a) == a.kind = "body" /\ a.errors

\* Array.isArray(response.data.result)
HasResultArray(a) == a.result \in {"empty", "nohtml", "html"}

InitContent ==
    /\ cimpl \in {"client", "session"}
    /\ cstage = "token"
    /\ fullAnswer = NoAnswer
    /\ sectionsAnswer = NoAnswer
    /\ retryAnswer = NoAnswer
    /\ cerror = "none"
    /\ chtml = "none"

ContentRaise(kind) ==
    /\ cstage' = "raised"
    /\ cerror' = kind
    /\ chtml' = chtml

\* what: "html" (a non-empty string) or "nothing" ('', null or undefined)
ContentReturn(what) ==
    /\ cstage' = "returned"
    /\ chtml' = what
    /\ cerror' = cerror

ContentGoes(stage) ==
    /\ cstage' = stage
    /\ UNCHANGED <<cerror, chtml>>

\* getAccessToken / getMarketoAccessToken at the start of the retrieval.
ContentToken(ok) ==
    /\ cstage = "token"
    /\ IF ~ok THEN ContentRaise("auth")
       ELSE ContentGoes(IF cimpl = "client" THEN "sections" ELSE "full")
    /\ UNCHANGED <<cimpl, fullAnswer, sectionsAnswer, retryAnswer>>
    /\ UNCHANGED <<tokVars, listVars, folderVars, exportVars, flattenVars,
                   dirVars>>

\* getCompleteEmailContent: the fullContent.json request.  A body with
\* success returns result[0].content, and throws into the catch when there
\* is no result[0]; everything else falls back to content.json.
FullContent(a) ==
    /\ cimpl = "session"
    /\ cstage = "full"
    /\ fullAnswer' = a
    /\ IF a.kind = "body" /\ a.success /\ a.result \in {"nohtml", "html"}
       THEN ContentReturn(IF a.result = "html" THEN "html" ELSE "nothing")
       ELSE ContentGoes("sections")
    /\ UNCHANGED <<cimpl, sectionsAnswer, retryAnswer>>
    /\ UNCHANGED <<tokVars, listVars, folderVars, exportVars, flattenVars,
                   dirVars>>

\* MarketoClient.getTemplateContent: the content.json request.
ClientContent(a) ==
    /\ cimpl = "client"
    /\ cstage = "sections"
    /\ sectionsAnswer' = a
    /\ CASE a.kind = "error" -> ContentRaise("transport")
         [] a.kind = "body" /\ ~a.success -> ContentRaise("generic")
         [] a.kind = "body" /\ a.success /\ ~HasResultArray(a) ->
                ContentRaise("typeerror")
         [] OTHER ->
                ContentReturn(IF a.result = "html" THEN "html" ELSE "nothing")
    /\ UNCHANGED <<cimpl, fullAnswer, retryAnswer>>
    /\ UNCHANGED <<tokVars, listVars, folderVars, exportVars, flattenVars,
                   dirVars>>

\* fetchContentJsonBackup: the content.json request.
BackupContent(a) ==
    /\ cimpl = "session"
    /\ cstage = "sections"
    /\ sectionsAnswer' = a
    /\ CASE a.kind = "error" -> ContentRaise("transport")
         [] HasErrors(a) -> ContentRaise("business")
         [] a.kind = "body" /\ ~a.errors /\ ~HasResultArray(a) ->
                ContentRaise("unavailable")
         [] a.kind = "body" /\ ~a.errors /\ a.result = "html" ->
                ContentReturn("html")
         [] OTHER -> ContentGoes("retrytoken")
    /\ UNCHANGED <<cimpl, fullAnswer, retryAnswer>>
    /\ UNCHANGED <<tokVars, listVars, folderVars, exportVars, flattenVars,
                   dirVars>>

\* fetchEmailHtmlContent: getMarketoAccessToken once more.
RetryToken(ok) ==
    /\ cimpl = "session"
    /\ cstage = "retrytoken"
    /\ IF ok THEN ContentGoes("retry") ELSE ContentRaise("auth")
    /\ UNCHANGED <<cimpl, fullAnswer, sectionsAnswer, retryAnswer>>
    /\ UNCHANGED <<tokVars, listVars, folderVars, exportVars, flattenVars,
                   dirVars>>

\* fetchEmailHtmlContent: the content.json request, a second time.
RetryContent(a) ==
    /\ cimpl = "session"
    /\ cstage = "retry"
    /\ retryAnswer' = a
    /\ CASE a.kind = "error" -> ContentRaise("transport")
         [] HasErrors(a) -> ContentRaise("business")
         [] a.kind = "body" /\ ~a.errors /\ ~HasResultArray(a) ->
                ContentRaise("format")
         [] OTHER ->
                ContentReturn(IF a.result = "html" THEN "html" ELSE "nothing")
    /\ UNCHANGED <<cimpl, fullAnswer, sectionsAnswer>>
    /\ UNCHANGED <<tokVars, listVars, folderVars, exportVars, flattenVars,
                   dirVars>>

ContentNext ==
    \/ \E ok \in BOOLEAN : ContentToken(ok)
    \/ \E a \in ContentAnswers : FullContent(a)
    \/ \E a \in ContentAnswers : ClientContent(a)
    \/ \E a \in ContentAnswers : BackupContent(a)
    \/ \E ok \in BOOLEAN : RetryToken(ok)
    \/ \E a \in ContentAnswers : RetryContent(a)

(***************************************************************************)
(* Content flattening: MarketoClient.extractHtmlContent and the section    *)
(* loops of fetchContentJsonBackup and fetchEmailHtmlContent.  A string is *)
(* the sequence of its pieces: fragments, line breaks and the marker.      *)
(***************************************************************************)
\* Bounds of the model.
MaxSections == 2      \* sections of a content response
MaxItems    == 2      \* items of a section's value list

Flatteners ==
    {"extractHtmlContent", "fetchContentJsonBackup", "fetchEmailHtmlContent"}

ItemTexts    == {"", "<p>a</p>", "<p>b</p>"}
InlineTexts  == {"", "<p>c</p>"}
Marker       == "<!-- Section Separator -->"
LineBreak    == "\n"

SeqsUpTo(S, n) == UNION {[1 .. k -> S] : k \in 0 .. n}

\* An item of a value list, a value (an array of items or something else),
\* a section.
ValueItems == [type : {"HTML", "Text"}, value : ItemTexts]
NoValueList == [isArray |-> FALSE, items |-> << >>]
SectionValues ==
    {NoValueList}
    \cup {[isArray |-> TRUE, items |-> its] : its \in SeqsUpTo(ValueItems, MaxItems)}
ContentSections ==
    [value : SectionValues, contentType : {"html", "text"},
     content : InlineTexts]

\* Mutant: no separator after a fragment.
AfterFragmentNothing(f) == << >>

\* What each function appends after a fragment: '\n', '\n\n', or
\* '\n\n<!-- Section Separator -->\n\n'.
AfterFragment(f) ==
    CASE f = "extractHtmlContent" -> <<LineBreak>>
      [] f = "fetchContentJsonBackup" -> <<LineBreak, LineBreak>>
      [] OTHER -> <<LineBreak, LineBreak, Marker, LineBreak, LineBreak>>

\* for (const item of section.value)
\*     if (item.type === 'HTML' && item.value) html += item.value + separator
RECURSIVE FlattenItems(_, _, _)
FlattenItems(f, items, html) ==
    IF items = << >> THEN html
    ELSE LET it == Head(items)
         IN FlattenItems(f, Tail(items),
                IF it.type = "HTML" /\ it.value # ""
                THEN html \o <<it.value>> \o AfterFragment(f)
                ELSE html)

\* The body of the loop over the sections.
FlattenSection(f, section, html) ==
    LET withItems ==
            IF section.value.isArray
            THEN FlattenItems(f, section.value.items, html)
            ELSE html
    IN IF section.contentType = "html" /\ section.content # ""
       THEN withItems \o <<section.content>> \o AfterFragment(f)
       ELSE withItems

RECURSIVE FlattenSections(_, _, _)
FlattenSections(f, sections, html) ==
    IF sections = << >> THEN html
    ELSE FlattenSections(f, Tail(sections),
                         FlattenSection(f, Head(sections), html))

InitFlatten ==
    /\ fimpl \in Flatteners
    /\ fsections \in SeqsUpTo(ContentSections, MaxSections)
    /\ fstage = "input"
    /\ fout = << >>

\* The function is applied to the sections.
FlattenCall ==
    /\ fstage = "input"
    /\ fout' = FlattenSections(fimpl, fsections, << >>)
    /\ fstage' = "done"
    /\ UNCHANGED <<fimpl, fsections>>
    /\ UNCHANGED <<tokVars, listVars, folderVars, exportVars, contentVars,
                   dirVars>>

FlattenNext == FlattenCall

(***************************************************************************)
(* Template directories: the batches of bulkExportTemplates over a list    *)
(* whose second page was fetched after the upstream collection had grown,  *)
(* and the directory processTemplate creates for each template.            *)
(***************************************************************************)
\* Bounds of the model.
MaxPastPage == 3      \* templates of the collection past the first page
MaxShift    == 2      \* templates added upstream between the two requests

\* Template names, as sequences of characters.
TemplateNames ==
    {<<"a", "b">>, <<"a", " ", " ", "b">>, <<"a", "_", "b">>,
     <<"a", "!", " ", "b">>, <<"a", "b", "_", "2">>}

\* \w: letters, digits and the underscore
WordChars  ==
    {"a", "b", "_", "0", "1", "2", "3", "4", "5", "6", "7", "8", "9"}
SpaceChars == {" "}

\* .replace(/[^\w\s-]/g, '')
KeptChar(ch) == ch \in WordChars \cup SpaceChars \cup {"-"}

\* .replace(/\s+/g, '_'): every run of whitespace becomes one underscore.
RECURSIVE Underscored(_, _)
Underscored(name, inRun) ==
    IF name = << >> THEN << >>
    ELSE IF Head(name) \in SpaceChars
         THEN (IF inRun THEN << >> ELSE <<"_">>) \o Underscored(Tail(name), TRUE)
         ELSE <<Head(name)>> \o Underscored(Tail(name), FALSE)

Sanitized(name) == Underscored(SelectSeq(name, KeptChar), FALSE)

DigitChars == <<"0", "1", "2", "3", "4", "5", "6", "7", "8", "9">>

\* The decimal digits of a template id.
RECURSIVE Digits(_)
Digits(n) ==
    IF n < 10 THEN <<DigitChars[n + 1]>>
    ELSE Digits(n \div 10) \o <<DigitChars[(n % 10) + 1]>>

\* Mutant: the directory named after the template name alone.
DirOfNameOnly(name, id) == Sanitized(name)

\* path.join(exportDir, `${templateName}_${templateId}`)
DirOf(name, id) == Sanitized(name) \o <<"_">> \o Digits(id)

\* The list bulkExportTemplates holds: the first page, templates 1 ..
\* pageSize, then the second page, served from offset pageSize of a
\* collection that has dshift new templates in front.
ListedTotal == dsize + dshift
IdAt(p) == IF p <= pageSize THEN p ELSE p - dshift

\* The name of a template: one name for the odd ids, one for the even.
NameOfId(id) == dnames[id % 2]

DirAt(p) == DirOf(NameOfId(IdAt(p)), IdAt(p))

\* allTemplates.slice(i, i + BATCH_SIZE), as positions of the list
BatchAt(i) == {p \in 1 .. ListedTotal : i < p /\ p <= i + BATCH_SIZE}

InitDirs ==
    /\ dnames \in [{0, 1} -> TemplateNames]
    /\ dsize \in {pageSize + d : d \in 1 .. MaxPastPage}
    /\ dshift \in 0 .. MaxShift
    /\ dcursor = 0
    /\ dflight = BatchAt(0)
    /\ dstage = "exporting"

\* processTemplate of one template of the batch settles.
DirSettle(p) ==
    /\ dstage = "exporting"
    /\ p \in dflight
    /\ dflight' = dflight \ {p}
    /\ UNCHANGED <<dnames, dsize, dshift, dcursor, dstage>>
    /\ UNCHANGED <<tokVars, listVars, folderVars, exportVars, contentVars,
                   flattenVars>>

\* Promise.allSettled resolved: the next batch starts, or the loop ends.
DirBatchEnd ==
    /\ dstage = "exporting"
    /\ dflight = {}
    /\ dcursor' = NextBatchStart(dcursor)
    /\ IF NextBatchStart(dcursor) < ListedTotal
       THEN dflight' = BatchAt(NextBatchStart(dcursor)) /\ dstage' = dstage
       ELSE dflight' = {} /\ dstage' = "done"
    /\ UNCHANGED <<dnames, dsize, dshift>>
    /\ UNCHANGED <<tokVars, listVars, folderVars, exportVars, contentVars,
                   flattenVars>>

DirsNext ==
    \/ \E p \in 1 .. (pageSize + MaxPastPage + MaxShift) : DirSettle(p)
    \/ DirBatchEnd

(***************************************************************************)
(* The specifications.                                                     *)
(***************************************************************************)
\* The values a component's variables keep while another one runs.
TokenIdle ==
    /\ impl = "client"
    /\ configured = TRUE
    /\ now = StartNow
    /\ accessToken = NoToken
    /\ tokenExpiry = NullExpiry
    /\ requests = 0
    /\ call = [c \in Callers |-> IdleCall]

ListIdle ==
    /\ lister = "none"
    /\ endless = FALSE
    /\ upstreamSize = 0
    /\ lstatus = "idle"
    /\ templates = << >>
    /\ offset = 0
    /\ pageCount = 0
    /\ pageRequests = 0
    /\ tokenCalls = 0
    /\ limitWarning = FALSE
    /\ pageToken = FALSE
    /\ tokenOffered = FALSE
    /\ cursorUsed = "none"
    /\ pageFailed = FALSE
    /\ handed = NothingHanded

FolderIdle ==
    /\ parentOf = [f \in Folders |-> NoFolder]
    /\ startFolder = NoFolder
    /\ fstatus = "idle"
    /\ fcur = NoFolder
    /\ fstack = << >>
    /\ fpath = << >>
    /\ lookups = 0
    /\ lookupFailed = FALSE

ExportIdle ==
    /\ exporter = "none"
    /\ env = [v \in EnvNames |-> "set"]
    /\ zip = FALSE
    /\ estage = "idle"
    /\ outcome = "none"
    /\ abortedAt = "none"
    /\ reported = << >>
    /\ netUsed = FALSE
    /\ wrote = FALSE
    /\ total = 0
    /\ cursor = 0
    /\ item = [t \in TemplateIds |-> PendingItem]
    /\ successful = 0
    /\ failed = 0
    /\ processedCount = 0
    /\ errors = << >>
    /\ archive = NoArchive

ContentIdle ==
    /\ cimpl = "none"
    /\ cstage = "idle"
    /\ fullAnswer = NoAnswer
    /\ sectionsAnswer = NoAnswer
    /\ retryAnswer = NoAnswer
    /\ cerror = "none"
    /\ chtml = "none"

FlattenIdle ==
    /\ fimpl = "none"
    /\ fsections = << >>
    /\ fstage = "idle"
    /\ fout = << >>

DirsIdle ==
    /\ dnames = [k \in {0, 1} |-> << >>]
    /\ dsize = 0
    /\ dshift = 0
    /\ dcursor = 0
    /\ dflight = {}
    /\ dstage = "idle"

OthersIdle == FlattenIdle /\ DirsIdle

SpecTokenInit  ==
    InitToken /\ ListIdle /\ FolderIdle /\ ExportIdle /\ ContentIdle
    /\ OthersIdle
SpecToken      == SpecTokenInit /\ [][TokenNext]_vars

SpecListInit   ==
    InitList /\ TokenIdle /\ FolderIdle /\ ExportIdle /\ ContentIdle
    /\ OthersIdle
SpecList       == SpecListInit /\ [][ListNext]_vars

SpecFolderInit ==
    InitFolder /\ TokenIdle /\ ListIdle /\ ExportIdle /\ ContentIdle
    /\ OthersIdle
SpecFolder     == SpecFolderInit /\ [][FolderNext]_vars

SpecExportInit ==
    InitExport /\ TokenIdle /\ ListIdle /\ FolderIdle /\ ContentIdle
    /\ OthersIdle
SpecExport     == SpecExportInit /\ [][ExportNext]_vars

SpecContentInit ==
    InitContent /\ TokenIdle /\ ListIdle /\ FolderIdle /\ ExportIdle
    /\ OthersIdle
SpecContent    == SpecContentInit /\ [][ContentNext]_vars

SpecFlattenInit ==
    InitFlatten /\ TokenIdle /\ ListIdle /\ FolderIdle /\ ExportIdle
    /\ ContentIdle /\ DirsIdle
SpecFlatten    == SpecFlattenInit /\ [][FlattenNext]_vars

SpecDirsInit   ==
    InitDirs /\ TokenIdle /\ ListIdle /\ FolderIdle /\ ExportIdle
    /\ ContentIdle /\ FlattenIdle
SpecDirs       == SpecDirsInit /\ [][DirsNext]_vars

(***************************************************************************)
(* Claims about the token store (SpecToken).                               *)
(***************************************************************************)
GetTokenCalls == {c \in Callers : call[c].op = "getToken"}

\* C1: a getToken call made while the stored token is outside the 5-minute
\* staleness window sends no identity request and returns the stored token,
\* and a getToken call that starts with no token stored and returns has sent
\* exactly one request; so two successive calls, the first from an empty
\* store and the second inside the first token's freshness, send one request
\* in total and return the same token.
C1_SecondCallServedFromCache ==
    /\ \A c \in GetTokenCalls :
          call[c].usable0 =>
              /\ call[c].pc = "returned"
              /\ call[c].sent = 0
              /\ call[c].ret = call[c].tok0
    /\ \A c \in GetTokenCalls :
          (call[c].tok0 = NoToken /\ call[c].pc = "returned") =>
              /\ call[c].sent = 1
              /\ call[c].ret = call[c].reqNo
    /\ \A c, d \in GetTokenCalls :
          (/\ call[c].pc = "returned" /\ call[c].tok0 = NoToken
           /\ call[d].usable0 /\ call[d].tok0 = call[c].ret) =>
              /\ call[c].sent + call[d].sent = 1
              /\ call[d].ret = call[c].ret

\* Witness of C1: a first call filled the empty store with one request, time
\* passed, and a second call returned the same token from the cache.
C1_Witness ==
    \E c, d \in GetTokenCalls :
        /\ call[c].pc = "returned" /\ call[c].tok0 = NoToken
        /\ call[c].how = "refreshed"
        /\ call[d].pc = "returned" /\ call[d].how = "cached"
        /\ call[d].usable0
        /\ call[d].ret = call[c].ret
        /\ requests = 1
        /\ now > StartNow

\* C2 (as claimed): at most one identity request of getToken callers is in
\* flight at any time.
C2_SingleFlight ==
    Cardinality({c \in GetTokenCalls : call[c].pc = "awaiting"}) <= 1

\* C3 (as claimed): every token getToken returns is usable at the moment of
\* return, now < expiresAt - 5 minutes.
C3_ReturnedTokenUsable ==
    \A c \in GetTokenCalls : call[c].pc = "returned" => call[c].usableRet

\* C3 (amended): a token returned from the cache is usable at the moment of
\* return unless its stored expiry is not a number (MarketoClient, after a
\* response without expires_in); a token returned straight after a refresh
\* is usable exactly when the reported time-to-live exceeds 300 seconds.
C3_ReturnedTokenUsableAmended ==
    \A c \in GetTokenCalls :
        call[c].pc = "returned" =>
            /\ call[c].how = "cached" =>
                  \/ call[c].usableRet
                  \/ impl = "client" /\ ~call[c].numRet
            /\ (call[c].how = "refreshed" /\ call[c].resp.hasTtl) =>
                  (call[c].usableRet <=>
                       call[c].resp.ttl * Second > TOKEN_EXPIRY_BUFFER_MS)
            /\ (call[c].how = "refreshed" /\ ~call[c].resp.hasTtl) =>
                  impl = "client" /\ ~call[c].usableRet /\ ~call[c].numRet

\* Witness of C3: one call returned a cached token that was usable after
\* time had passed, another returned a token refreshed with a time-to-live
\* of at most 300 seconds, inside the staleness window from the start.
C3_Witness ==
    \E c, d \in GetTokenCalls :
        /\ call[c].pc = "returned" /\ call[c].how = "cached"
        /\ call[c].usableRet
        /\ now > StartNow
        /\ call[d].pc = "returned" /\ call[d].how = "refreshed"
        /\ call[d].resp.hasTtl
        /\ call[d].resp.ttl <= SkewSeconds
        /\ ~call[d].usableRet

\* C4 (as claimed): an authenticate whose request got an answer succeeds
\* exactly when the body holds both access_token and expires_in, and raises
\* otherwise.
C4_AuthenticateNeedsBothFields ==
    \A c \in Callers :
        call[c].resp.kind # "none" =>
            IF call[c].resp.kind = "body" /\ call[c].resp.hasToken
                   /\ call[c].resp.hasTtl
            THEN call[c].pc = "returned"
            ELSE call[c].pc = "raised"

(***************************************************************************)
(* Claims about the listing (SpecList).                                    *)
(***************************************************************************)
PageCap == MAX_PAGES * pageSize

\* The listing has ended its pagination and goes on with the templates.
ListingEnded == lstatus \in {"end", "limit"}

\* C5: against a finite collection served by offset, a listing that ends
\* (getAllTemplates, and bulkExportTemplates when the size is within
\* MAX_PAGES x pageSize) holds exactly the collection, in upstream order.
C5_ListsWholeCollection ==
    (/\ ListingEnded
     /\ ~endless
     /\ lister = "bulkExport" => upstreamSize <= PageCap) =>
        templates = Upstream(upstreamSize)

\* Witness of C5: a listing of more than two pages ended with all of it.
C5_Witness ==
    /\ lstatus = "end"
    /\ ~endless
    /\ upstreamSize > 2 * pageSize
    /\ pageRequests > 2
    /\ templates = Upstream(upstreamSize)

\* C6 (as claimed): for a collection of at most MAX_PAGES x pageSize
\* templates the listing sends at most MAX_PAGES page requests and never
\* takes the page-limit branch.
C6_NoLimitWithinCap ==
    (~endless /\ upstreamSize <= PageCap) =>
        /\ pageRequests <= MAX_PAGES
        /\ ~limitWarning
        /\ lstatus # "limit"

\* C6 (amended): the same for a collection of fewer than MAX_PAGES x
\* pageSize templates.
C6_NoLimitBelowCap ==
    (~endless /\ upstreamSize < PageCap) =>
        /\ pageRequests <= MAX_PAGES
        /\ ~limitWarning
        /\ lstatus # "limit"

\* Witness of C6: a collection one short of the cap was listed with exactly
\* MAX_PAGES requests and no warning.
C6_Witness ==
    /\ lstatus = "end"
    /\ ~endless
    /\ upstreamSize = PageCap - 1
    /\ pageRequests = MAX_PAGES
    /\ ~limitWarning
    /\ Len(templates) = upstreamSize

\* C7 (as claimed): whatever the upstream does, a listing sends at most
\* MAX_PAGES page requests.
C7_RequestsCapped == pageRequests <= MAX_PAGES

(***************************************************************************)
(* Claims about the folder path (SpecFolder).                              *)
(***************************************************************************)
PendingIds == {fstack[i].id : i \in 1 .. Len(fstack)}

\* C8 (as claimed): a resolution ends after finitely many lookups, also on
\* a cyclic chain.  A folder's lookup answers with its fixed parent, so a
\* resolution that comes back to a folder whose call is still pending goes
\* round the same lookups again for as long as they succeed; a resolution
\* that ends on its own never does that.
C8_NoFolderResolvedTwice ==
    fstatus = "walking" => fcur \notin PendingIds

\* C9 (as claimed): when a lookup in the chain found nothing, the path
\* returned is empty.
C9_FailsClosed ==
    (fstatus = "returned" /\ lookupFailed) => fpath = << >>

\* C10: when every lookup succeeded, the path returned is empty for an
\* absent folder id and otherwise runs from the root to the given folder:
\* the first element has no parent, each later element's parent is the
\* element before it, and the last element is the given folder.
C10_RootFirstPath ==
    (fstatus = "returned" /\ ~lookupFailed) =>
        IF startFolder = NoFolder THEN fpath = << >>
        ELSE /\ Len(fpath) >= 1
             /\ fpath[1].parent = NoFolder
             /\ fpath[Len(fpath)].id = startFolder
             /\ \A i \in 1 .. Len(fpath) : fpath[i] = Details(fpath[i].id)
             /\ \A i \in 2 .. Len(fpath) : fpath[i].parent = fpath[i - 1].id

\* Witness of C10: a path of three folders or more was returned.
C10_Witness ==
    /\ fstatus = "returned"
    /\ ~lookupFailed
    /\ Len(fpath) > 2

(***************************************************************************)
(* Claims about the export run (SpecExport).                               *)
(***************************************************************************)
Settled     == {t \in TemplateIds : item[t].st \in {"ok", "raised"}}
RaisedItems == {t \in TemplateIds : item[t].st = "raised"}
OkItems     == {t \in TemplateIds : item[t].st = "ok"}

\* The loop over the templates is over.
ExportLoopOver == estage \in {"archive", "done", "hung"}

\* C11: a template whose export raises stops nothing: failed counts the
\* templates that raised and successful those that did not, every template
\* of a running batch has been started whatever its siblings did, and once
\* the loop is over every listed template has been attempted.
C11_FailureIsolated ==
    /\ failed = Cardinality(RaisedItems)
    /\ successful = Cardinality(OkItems)
    /\ (exporter = "bulk" /\ estage = "exporting") =>
           \A t \in Batch(cursor, total) : item[t].st # "pending"
    /\ ExportLoopOver => \A t \in 1 .. total : t \in Settled

\* Witness of C11: the third template of the first batch raised, and the
\* run went through that batch and the next one with no other failure.
C11_Witness ==
    /\ exporter = "bulk"
    /\ estage = "done"
    /\ total > BATCH_SIZE
    /\ RaisedItems = {3}
    /\ failed = 1
    /\ successful = total - 1

\* C12 (as claimed): a template whose HTML could not be retrieved has an
\* error marker and no HTML file, and is counted as failed with an error
\* entry, under exportAllTemplates as under bulkExportTemplates.
C12_ContentFailureCounted ==
    \A t \in Settled :
        item[t].cause \in ContentFailCauses =>
            /\ "error.txt" \in item[t].files
            /\ "html" \notin item[t].files
            /\ item[t].st = "raised"
            /\ \E i \in 1 .. Len(errors) : errors[i] = t

\* C13 (as claimed): a template whose content or folder request got no
\* token ends the whole run with a failure; any other failure of a
\* template leaves the run going.
C13_AuthFailureAborts ==
    \A t \in Settled :
        IF item[t].cause \in AuthCauses
        THEN estage = "done" /\ outcome \in {"exit1", "raised"}
                             /\ abortedAt = "exporting"
        ELSE abortedAt # "exporting"

\* C14: successful + failed is the number of templates settled so far and
\* never exceeds total, there are as many error entries as failures, only
\* listed templates are exported, and once the loop is over successful +
\* failed = total.
C14_ResultAccounting ==
    /\ successful + failed = Cardinality(Settled)
    /\ successful + failed <= total
    /\ Len(errors) = failed
    /\ \A t \in TemplateIds : item[t].st # "pending" => t <= total
    /\ exporter = "bulk" => processedCount = successful + failed
    /\ ExportLoopOver => successful + failed = total

\* Witness of C14: a run over more than one batch returned with both
\* successes and failures counted.
C14_Witness ==
    /\ estage = "done"
    /\ outcome \in {"exit0", "returned"}
    /\ total > BATCH_SIZE
    /\ failed = MaxFailures
    /\ successful = total - MaxFailures
    /\ Len(errors) = MaxFailures

\* C15 (as claimed): the export command exits non-zero exactly when the
\* run could not start, that is when a variable is missing or the initial
\* authentication fails.
C15_NonZeroOnlyBeforeStart ==
    (exporter = "cli" /\ estage = "done") =>
        (outcome = "exit1" <=> abortedAt \in {"validate", "authenticate"})

\* C16: while a required variable is missing the export command issues no
\* network request and writes nothing, and it ends with a non-zero exit
\* code and the missing names reported.
C16_MissingVariableStopsRun ==
    (exporter = "cli" /\ \E v \in EnvNames : env[v] # "set") =>
        /\ ~netUsed
        /\ ~wrote
        /\ estage \in {"validate", "done"}
        /\ estage = "done" =>
               /\ outcome = "exit1"
               /\ {reported[i] : i \in 1 .. Len(reported)} =
                      {v \in EnvNames : env[v] # "set"}

\* Witness of C16: the command ended with two or more names reported.
C16_Witness ==
    /\ exporter = "cli"
    /\ estage = "done"
    /\ outcome = "exit1"
    /\ Len(reported) >= 2
    /\ env["MARKETO_CLIENT_ID"] = "set"
    /\ ~netUsed
    /\ ~wrote

\* C17 (as claimed): the archive step returns the output path when neither
\* the filesystem nor the compression errors, and fails with an error
\* otherwise, in createArchive as in createZipArchive.
C17_ArchiveSucceedsUnlessError ==
    archive.tried =>
        archive.result =
            IF archive.fsError \/ archive.zipError THEN "error" ELSE "path"

(***************************************************************************)
(* Claims about failed calls (SpecList, SpecContent).                      *)
(***************************************************************************)
\* Page requests sent at the current offset.
RequestsAtOffset == pageRequests - offset \div PageLen

\* C18 (as claimed): a page request that failed was sent at least twice
\* before the listing gave up.
C18_FailedCallRetried ==
    (lstatus \in {"raised", "format"} /\ RequestsAtOffset >= 1) =>
        RequestsAtOffset >= 2

\* C19 (as claimed): once a content endpoint has answered with a non-empty
\* errors list the retrieval has failed, with the provider's error.
C19_BusinessErrorIsHard ==
    (HasErrors(fullAnswer) \/ HasErrors(sectionsAnswer)
         \/ HasErrors(retryAnswer)) =>
        cstage = "raised" /\ cerror = "business"

(***************************************************************************)
(* Claims about the freshness boundary (SpecToken).                        *)
(***************************************************************************)
\* C20: a getToken call made 1 second before expiresAt - 5 minutes returns
\* the stored token without a request; one made 1 second after sends an
\* identity request, and what it returns is the refreshed token.
C20_FreshnessBoundary ==
    \A c \in GetTokenCalls :
        /\ call[c].edge0 = "before" =>
               /\ call[c].pc = "returned"
               /\ call[c].how = "cached"
               /\ call[c].sent = 0
               /\ call[c].ret = call[c].tok0
        /\ call[c].edge0 = "after" =>
               /\ call[c].sent = 1
               /\ call[c].pc = "returned" => call[c].how = "refreshed"

\* Witness of C20: one call on each side of the boundary, the first served
\* from the cache and the second refreshed.
C20_Witness ==
    \E c, d \in GetTokenCalls :
        /\ call[c].edge0 = "before" /\ call[c].how = "cached"
        /\ call[d].edge0 = "after" /\ call[d].pc = "returned"
        /\ call[d].how = "refreshed"
        /\ call[d].tok0 = call[c].ret

(***************************************************************************)
(* Further claims about the listing (SpecList).                            *)
(***************************************************************************)
\* C21 (as claimed): every page request has its own getToken call before
\* it, so there are at least as many getToken calls as page requests.
C21_TokenBeforeEachPage == pageRequests <= tokenCalls

(***************************************************************************)
(* Further claims about the export run (SpecExport).                       *)
(***************************************************************************)
InFlightItems == {t \in TemplateIds : item[t].st = "started"}

\* C22: the templates in flight number at most BATCH_SIZE and lie in the
\* BATCH_SIZE positions after the cursor, and while any is in flight every
\* template up to the cursor, that is of every earlier batch, has settled.
C22_OneBatchInFlight ==
    /\ Cardinality(InFlightItems) <= BATCH_SIZE
    /\ \A t \in InFlightItems : cursor < t /\ t <= cursor + BATCH_SIZE
    /\ InFlightItems # {} => \A u \in 1 .. cursor : u \in Settled
    /\ exporter = "cli" => InFlightItems = {}

\* Witness of C22: the second batch is in flight after the first one, a
\* full batch with a failure in it, has settled.
C22_Witness ==
    /\ exporter = "bulk"
    /\ cursor = BATCH_SIZE
    /\ InFlightItems # {}
    /\ \A t \in InFlightItems : t > BATCH_SIZE
    /\ Cardinality(Settled) = BATCH_SIZE
    /\ RaisedItems # {}

\* C26 (as claimed): the directory of a template whose export has finished
\* holds metadata.json and exactly one of the HTML file, error.txt and
\* no_content.txt.  (A failure of the filesystem itself is left aside.)
C26_OneContentFile ==
    \A t \in Settled :
        item[t].cause # "fs" =>
            /\ "metadata.json" \in item[t].files
            /\ Cardinality(item[t].files
                               \cap {"html", "error.txt", "no_content.txt"}) = 1

(***************************************************************************)
(* Further claims about the content retrieval (SpecContent).               *)
(***************************************************************************)
\* C23 (as claimed): the content-sections endpoint is requested only after
\* the full-content request has errored or reported failure.
C23_FullContentFirst ==
    (cstage = "sections" \/ sectionsAnswer # NoAnswer) =>
        /\ fullAnswer # NoAnswer
        /\ ~(fullAnswer.kind = "body" /\ fullAnswer.success)

\* C25 (as claimed): a page request sent after a response that carried a
\* continuation token uses that token as its cursor.
C25_TokenCursorPreferred == tokenOffered => cursorUsed = "token"

IsFragment(piece) == piece \notin {LineBreak, Marker}

IsHtmlItem(it) == it.type = "HTML" /\ it.value # ""

ValueOf(it) == it.value

RECURSIVE MapSeq(_, _)
MapSeq(Op(_), sq) ==
    IF sq = << >> THEN << >> ELSE <<Op(Head(sq))>> \o MapSeq(Op, Tail(sq))

FragmentsOfSection(section) ==
    (IF section.value.isArray
     THEN MapSeq(ValueOf, SelectSeq(section.value.items, IsHtmlItem))
     ELSE << >>)
    \o (IF section.contentType = "html" /\ section.content # ""
        THEN <<section.content>> ELSE << >>)

RECURSIVE FragmentsOf(_)
FragmentsOf(sections) ==
    IF sections = << >> THEN << >>
    ELSE FragmentsOfSection(Head(sections)) \o FragmentsOf(Tail(sections))

\* The pieces between positions i and j hold an empty line or the marker.
SeparatedBetween(out, i, j) ==
    \/ \E k \in (i + 1) .. (j - 1) : out[k] = Marker
    \/ \E k \in (i + 1) .. (j - 2) :
           out[k] = LineBreak /\ out[k + 1] = LineBreak

ConsecutiveFragments(out, i, j) ==
    /\ i < j
    /\ IsFragment(out[i]) /\ IsFragment(out[j])
    /\ \A k \in (i + 1) .. (j - 1) : ~IsFragment(out[k])

C24_FlattenedInOrder ==
    fstage = "done" =>
        /\ SelectSeq(fout, IsFragment) = FragmentsOf(fsections)
        /\ \A i, j \in 1 .. Len(fout) :
               ConsecutiveFragments(fout, i, j) => SeparatedBetween(fout, i, j)

(***************************************************************************)
(* C27.  The templates of a batch that are in flight together write to     *)
(* pairwise different directories, whatever the names of the templates and *)
(* however the collection grew between the two page requests.              *)
(***************************************************************************)
C27_DistinctDirsInFlight ==
    \A p, q \in dflight : p # q => DirAt(p) # DirAt(q)

\* A template listed twice is in flight, next to a template of the same
\* name, and the names lose characters when sanitized.
C27_Witness ==
    /\ dstage = "exporting"
    /\ dshift > 0
    /\ \E p, q \in dflight :
           /\ p # q
           /\ p > pageSize /\ IdAt(p) <= pageSize
           /\ Sanitized(NameOfId(IdAt(p))) = Sanitized(NameOfId(IdAt(q)))
           /\ Sanitized(NameOfId(IdAt(p))) # NameOfId(IdAt(p))

(***************************************************************************)
(* C28.  A call that fails leaves the stored token and its expiry as they  *)
(* were: the step that sends the identity request and the step that raises *)
(* write nothing, and a call whose identity request is answered with an    *)
(* error or with a body that lacks the token raises and returns no token,  *)
(* the stale one included.                                                 *)
(***************************************************************************)
FailedAnswer(r) == r.kind = "error" \/ ~r.hasToken

StoreKept == accessToken' = accessToken /\ tokenExpiry' = tokenExpiry

C28_FailedRefreshKeepsStore ==
    [][\A c \in Callers :
          /\ (call'[c] # call[c] /\ call'[c].pc \in {"awaiting", "raised"})
                 => StoreKept
          /\ (call[c].pc = "awaiting" /\ call'[c].pc # "awaiting"
                 /\ FailedAnswer(call'[c].resp))
                 => /\ StoreKept
                    /\ call'[c].pc = "raised"
                    /\ call'[c].ret = NoToken]_vars

\* A getToken call found a stale token, its refresh failed, it raised, and
\* the stale token and its expiry are still the stored ones.
C28_Witness ==
    \E c \in Callers :
        /\ call[c].op = "getToken"
        /\ call[c].pc = "raised"
        /\ FailedAnswer(call[c].resp) /\ call[c].resp.kind # "none"
        /\ call[c].tok0 # NoToken
        /\ accessToken = call[c].tok0
        /\ tokenExpiry.kind = "num"
        /\ now >= tokenExpiry.ms - TOKEN_EXPIRY_BUFFER_MS

(***************************************************************************)
(* C30.  For the stored token and expiry and the current time, the guard   *)
(* of getAccessToken and the guard of getMarketoAccessToken decide alike:  *)
(* the one refreshes exactly when the other does.                          *)
(***************************************************************************)
C30_GuardsAgree ==
    ClientNeedsRefresh(accessToken, tokenExpiry, now)
        <=> ~SessionCached(accessToken, tokenExpiry, now)
====
